---- MODULE Spec2Model ----
(***************************************************************************)
(* State-machine model of diffpy.pdfmorph's application driver             *)
(* (src/diffpy/pdfmorph/pdfmorphapp.py): single_morph, which builds a      *)
(* morph chain from the command-line options, refines it and reports, and  *)
(* multiple_morphs, which repeats single_morph over a sorted directory of  *)
(* targets and aggregates the results in a table.                          *)
(*                                                                         *)
(* Python's None is the empty tuple and a present value v is <<v>>, so an  *)
(* option or a Config entry is a tuple of length 0 or 1.                   *)
(***************************************************************************)
EXTENDS Integers, Sequences, FiniteSets, TLC

VARIABLES
    opts,           \* the parsed options (multiple_morphs rewrites plot and saveloc)
    pargs,          \* positional arguments of the running single_morph call
    pc,             \* position inside single_morph
    config,         \* the Config dictionary shared with the chain
    chain,          \* the MorphChain: sequence of stage names
    refpars,        \* list of refinable parameter names
    residual,       \* residual strategy installed on the Refiner
    refine_calls,   \* log of refiner.refine calls of the running pair
    chain_calls,    \* log of direct chain(...) executions: slot 0 at each call
    rw,             \* Rw read by tools.getRw
    pcc,            \* Pearson read by tools.get_pearson
    morph_results,  \* return value of single_morph
    written,        \* files written so far: sequence of [path, target, slot0]
    plots,          \* plots drawn so far
    error,          \* message of the error exit, None while running
    bpc,            \* position inside multiple_morphs ("none" for a single run)
    directory,      \* listing of the target directory (iterdir order)
    target_list,    \* list of targets, sorted in place
    field,          \* formatted sort field
    field_list,     \* field values in sorted order
    dirs,           \* directories created so far
    save_names,     \* target name -> name of the saved morph
    results,        \* insertion-ordered dictionary: sequence of [key, value]
    next_target,    \* loop position of "for target_file in target_list"
    plot_opt,       \* the plot option as given, kept while opts.plot is off
    save_opt,       \* the save location as given
    file_names,     \* keys of results, in order
    scales,         \* the values extracted from results, one list per column
    stretches,
    smears,
    pearsons,
    rws,
    labels,         \* header of the table
    table,          \* rows of the aggregate table, None until it is rendered
    reported        \* what multiple_morphs printed, wrote and plotted at the end

svars == <<pargs, pc, config, chain, refpars, residual, refine_calls,
           chain_calls, rw, pcc, morph_results>>
bvars == <<bpc, directory, target_list, field, field_list, dirs, save_names,
           results, next_target, plot_opt, save_opt, file_names, scales,
           stretches, smears, pearsons, rws, labels, table, reported>>
vars == <<opts, svars, written, plots, error, bvars>>

----------------------------------------------------------------------------
(* Python values *)

None == <<>>
Some(v) == <<v>>
IsNone(x) == x = <<>>
Val(x) == x[1]

Range(s) == {s[i] : i \in 1..Len(s)}

\* dict[key] = value on a function with a growing domain
DictSet(d, k, v) == [x \in (DOMAIN d) \cup {k} |-> IF x = k THEN v ELSE d[x]]

\* list(set): a list of the elements of S in an order the program does not fix
RECURSIVE SetToList(_)
SetToList(S) ==
    IF S = {} THEN <<>>
    ELSE LET x == CHOOSE x \in S : TRUE IN <<x>> \o SetToList(S \ {x})

\* list comprehension with a filter, keeping the order
RECURSIVE SelectList(_, _)
SelectList(s, S) ==
    IF s = <<>> THEN <<>>
    ELSE (IF Head(s) \in S THEN <<Head(s)>> ELSE <<>>) \o SelectList(Tail(s), S)

----------------------------------------------------------------------------
(* Bounds and input catalogue *)

\* largest number of entries of the target directory
MaxTargets == 2

\* the files of the catalogue, as <<stem, suffix>>; the morph file is MorphFile
MorphFile == <<"m", "gr">>
TargetFiles == {<<"a", "cgr">>, <<"a", "gr">>, <<"b", "gr">>}
Unreadable == <<"x", "gr">>

\* the parameter vocabulary that -x may name
ParNames == {"scale", "stretch", "smear", "baselineslope", "radius", "pradius",
             "iradius", "ipradius", "qdamp"}

\* the exclusion lists (-x) the model tries; None is "no -x given"
ExcludeSets == {{}, {"smear"}, {"baselineslope"}, {"scale", "smear"},
                {"smear", "baselineslope"}, {"radius", "ipradius"}, ParNames}

\* option values; floats are written in tenths (-0.5 is -5)
NoBatchOpts == [multiple |-> FALSE, field |-> None, reverse |-> FALSE,
                serfile |-> None, snfile |-> None, verbose |-> FALSE]

\* every combination of manipulations and exclusions, plain reporting
BuildOpts ==
    { [scale |-> sc, stretch |-> st, smear |-> sm, baselineslope |-> sl,
       radius |-> ra, pradius |-> pr, iradius |-> ir, ipradius |-> ip,
       qdamp |-> qd, exclude |-> ex, refine |-> rf,
       rmin |-> None, rmax |-> None, pearson |-> FALSE, addpearson |-> FALSE,
       saveloc |-> None, plot |-> FALSE] @@ NoBatchOpts :
      sc \in {None, Some(20)}, st \in {None, Some(1)}, sm \in {None, Some(2)},
      sl \in {None, Some(-3)}, ra \in {None, Some(50)},
      pr \in {None, Some(30), Some(-10)}, ir \in {None, Some(50), Some(-10)},
      ip \in {None, Some(30)}, qd \in {None, Some(1)},
      ex \in {None} \cup {Some(x) : x \in ExcludeSets}, rf \in BOOLEAN }

\* every combination of range, residual and reporting options, few manipulations
ReportOpts ==
    { [scale |-> sc, stretch |-> None, smear |-> sm, baselineslope |-> sl,
       radius |-> None, pradius |-> None, iradius |-> None, ipradius |-> None,
       qdamp |-> None, exclude |-> ex, refine |-> rf,
       rmin |-> rmin, rmax |-> rmax, pearson |-> pe, addpearson |-> ap,
       saveloc |-> sv, plot |-> pl] @@ NoBatchOpts :
      sc \in {None, Some(20)}, sm \in {None, Some(2)}, sl \in {None, Some(-3)},
      ex \in {None, Some({"smear"})}, rf \in BOOLEAN,
      rmin \in {None, Some(10), Some(20)}, rmax \in {None, Some(10), Some(20)},
      pe \in BOOLEAN, ap \in BOOLEAN,
      sv \in {None, Some(<<"out.cgr">>), Some(<<"nodir", "out.cgr">>)},
      pl \in BOOLEAN }

----------------------------------------------------------------------------
(* Collaborators of pdfmorphapp.py that live in other modules of the package *)

\* tools.nn_value(val, name): the value when it can be used, otherwise the
\* build fails naming the parameter
nn_value(val, name) ==
    IF Val(val) >= 0 THEN [ok |-> TRUE, value |-> val, name |-> name]
    ELSE [ok |-> FALSE, value |-> None, name |-> name]

\* the value the optimizer writes back for a parameter it was asked to tune:
\* a value no option can carry, so a refined entry is told from an untouched one
Optimized(v) == Some(Val(v) + 1000)

\* Refiner.refine(*names, **seeds): seeds are stored in Config, then every
\* named entry is optimized in place
RefinerRefine(cfg, names, seeds) ==
    LET seeded == [k \in DOMAIN cfg |-> IF k \in DOMAIN seeds THEN seeds[k] ELSE cfg[k]]
    IN [k \in DOMAIN cfg |-> IF k \in names THEN Optimized(seeded[k]) ELSE seeded[k]]

\* tools.getRw(chain) and tools.get_pearson(chain): scores of the last
\* execution of the chain, which depend on the target's data and on the grid
\* the comparison runs over: the restricted grid when slot 0 is MorphRGrid,
\* the whole grid otherwise
CurveData == [f \in TargetFiles \cup {MorphFile} |->
                 CASE f = <<"a", "cgr">> -> 3
                   [] f = <<"a", "gr">> -> 1
                   [] f = <<"b", "gr">> -> 2
                   [] OTHER -> 0]
WholeGrid(ch) == IF ch[1] = "MorphRGrid" THEN 0 ELSE 5
getRw(ch, target) == Some(CurveData[target] + WholeGrid(ch))
get_pearson(ch, target) == Some(10 - CurveData[target] - WholeGrid(ch))

\* a path is a sequence of components; its parent directory
Parent(path) == SubSeq(path, 1, Len(path) - 1)
DirExists(d) == d = <<>> \/ d \in dirs

----------------------------------------------------------------------------
(* single_morph *)

Exit(msg) == pc' = "exit" /\ error' = Some(msg)

\* local variables of a fresh single_morph call
EnterSingleMorph ==
    /\ pc' = "start"
    /\ config' = << >>
    /\ chain' = << >>
    /\ refpars' = << >>
    /\ residual' = "residual"
    /\ refine_calls' = << >>
    /\ chain_calls' = << >>
    /\ rw' = None
    /\ pcc' = None
    /\ morph_results' = None

\* lines 283-293: read both PDFs, start the Config
SM_Start ==
    /\ pc = "start"
    /\ IF Unreadable \in Range(pargs)
       THEN Exit("cannot read") /\ UNCHANGED config
       ELSE /\ config' = [k \in {"rmin", "rmax", "rstep"} |->
                            CASE k = "rmin" -> opts.rmin
                              [] k = "rmax" -> opts.rmax
                              [] OTHER -> None]
            /\ pc' = "range"
            /\ UNCHANGED error
    /\ UNCHANGED <<opts, pargs, chain, refpars, residual, refine_calls, chain_calls,
                   rw, pcc, morph_results, written, plots, bvars>>

\* the check with < in place of <=: equal bounds pass
RangeRejected_strict(o) ==
    ~IsNone(o.rmin) /\ ~IsNone(o.rmax) /\ Val(o.rmax) < Val(o.rmin)

\* lines 294-296: the r-range check
RangeRejected(o) == ~IsNone(o.rmin) /\ ~IsNone(o.rmax) /\ Val(o.rmax) <= Val(o.rmin)

SM_Range ==
    /\ pc = "range"
    /\ IF RangeRejected(opts)
       THEN Exit("rmin must be less than rmax")
       ELSE pc' = "chain" /\ UNCHANGED error
    /\ UNCHANGED <<opts, pargs, config, chain, refpars, residual, refine_calls,
                   chain_calls, rw, pcc, morph_results, written, plots, bvars>>

\* lines 299-302: the chain with the r-grid morph in slot 0
SM_Chain ==
    /\ pc = "chain"
    /\ chain' = <<"MorphRGrid">>
    /\ refpars' = << >>
    /\ pc' = "scale"
    /\ UNCHANGED <<opts, pargs, config, residual, refine_calls, chain_calls,
                   rw, pcc, morph_results, written, plots, error, bvars>>

\* lines 305-309
SM_Scale ==
    /\ pc = "scale"
    /\ IF ~IsNone(opts.scale)
       THEN /\ chain' = Append(chain, "MorphScale")
            /\ config' = DictSet(config, "scale", opts.scale)
            /\ refpars' = Append(refpars, "scale")
       ELSE UNCHANGED <<chain, config, refpars>>
    /\ pc' = "stretch"
    /\ UNCHANGED <<opts, pargs, residual, refine_calls, chain_calls,
                   rw, pcc, morph_results, written, plots, error, bvars>>

\* lines 311-315
SM_Stretch ==
    /\ pc = "stretch"
    /\ IF ~IsNone(opts.stretch)
       THEN /\ chain' = Append(chain, "MorphStretch")
            /\ config' = DictSet(config, "stretch", opts.stretch)
            /\ refpars' = Append(refpars, "stretch")
       ELSE UNCHANGED <<chain, config, refpars>>
    /\ pc' = "smear"
    /\ UNCHANGED <<opts, pargs, residual, refine_calls, chain_calls,
                   rw, pcc, morph_results, written, plots, error, bvars>>

\* the smear rule without the test for a given slope
SmearRefpars_always(o) == <<"smear", "baselineslope">>

\* lines 322-327: what smear adds to refpars, and the slope it stores
SmearRefpars(o) ==
    <<"smear">> \o (IF IsNone(o.baselineslope) THEN <<"baselineslope">> ELSE << >>)

SmearSlope(o) == IF IsNone(o.baselineslope) THEN Some(-5) ELSE o.baselineslope

\* lines 317-327
SM_Smear ==
    /\ pc = "smear"
    /\ IF ~IsNone(opts.smear)
       THEN /\ chain' = chain \o <<"TransformXtalPDFtoRDF", "MorphSmear",
                                   "TransformXtalRDFtoPDF">>
            /\ config' = DictSet(DictSet(config, "smear", opts.smear),
                                 "baselineslope", SmearSlope(opts))
            /\ refpars' = refpars \o SmearRefpars(opts)
       ELSE UNCHANGED <<chain, config, refpars>>
    /\ pc' = "size"
    /\ UNCHANGED <<opts, pargs, residual, refine_calls, chain_calls,
                   rw, pcc, morph_results, written, plots, error, bvars>>

\* the envelope rule storing a lone value under the name of its own option
EnvelopeBuild_named(cfg, ch, rp, a, b, na, nb, sphere, spheroid) ==
    LET own == IF IsNone(a) THEN nb ELSE na
    IN  IF IsNone(a) /\ IsNone(b)
        THEN [ok |-> TRUE, config |-> cfg, chain |-> ch, refpars |-> rp]
        ELSE IF IsNone(a) \/ IsNone(b)
        THEN [ok |-> Val(IF IsNone(a) THEN b ELSE a) >= 0,
              config |-> DictSet(cfg, own, IF IsNone(a) THEN b ELSE a),
              chain |-> Append(ch, sphere), refpars |-> Append(rp, own)]
        ELSE [ok |-> Val(a) >= 0 /\ Val(b) >= 0,
              config |-> DictSet(DictSet(cfg, na, a), nb, b),
              chain |-> Append(ch, spheroid), refpars |-> rp \o <<na, nb>>]

\* lines 329-341 and 342-354: the two copies of the envelope rule, for the pair
\* (a, b) with Config names (na, nb) and stages (sphere, spheroid)
EnvelopeBuild(cfg, ch, rp, a, b, na, nb, sphere, spheroid) ==
    LET radii == SelectList(<<a, b>>, {a, b} \ {None})
        nrad == Len(radii)
        one == nn_value(radii[1], na \o " or " \o nb)
        first == nn_value(radii[1], na)
        second == nn_value(radii[2], nb)
    IN  IF nrad = 1
        THEN IF one.ok
             THEN [ok |-> TRUE, config |-> DictSet(cfg, na, one.value),
                   chain |-> Append(ch, sphere), refpars |-> Append(rp, na)]
             ELSE [ok |-> FALSE, config |-> cfg, chain |-> ch, refpars |-> rp]
        ELSE IF nrad = 2
        THEN IF first.ok /\ second.ok
             THEN [ok |-> TRUE,
                   config |-> DictSet(DictSet(cfg, na, first.value), nb, second.value),
                   chain |-> Append(ch, spheroid), refpars |-> rp \o <<na, nb>>]
             ELSE [ok |-> FALSE, config |-> cfg, chain |-> ch, refpars |-> rp]
        ELSE [ok |-> TRUE, config |-> cfg, chain |-> ch, refpars |-> rp]

\* lines 329-341
SM_Size ==
    /\ pc = "size"
    /\ LET b == EnvelopeBuild(config, chain, refpars, opts.radius, opts.pradius,
                              "radius", "pradius", "MorphSphere", "MorphSpheroid")
       IN IF b.ok
          THEN /\ config' = b.config
               /\ chain' = b.chain
               /\ refpars' = b.refpars
               /\ pc' = "isize"
               /\ UNCHANGED error
          ELSE Exit("negative radius") /\ UNCHANGED <<config, chain, refpars>>
    /\ UNCHANGED <<opts, pargs, residual, refine_calls, chain_calls,
                   rw, pcc, morph_results, written, plots, bvars>>

\* lines 342-354
SM_ISize ==
    /\ pc = "isize"
    /\ LET b == EnvelopeBuild(config, chain, refpars, opts.iradius, opts.ipradius,
                              "iradius", "ipradius", "MorphISphere", "MorphISpheroid")
       IN IF b.ok
          THEN /\ config' = b.config
               /\ chain' = b.chain
               /\ refpars' = b.refpars
               /\ pc' = "resolution"
               /\ UNCHANGED error
          ELSE Exit("negative iradius") /\ UNCHANGED <<config, chain, refpars>>
    /\ UNCHANGED <<opts, pargs, residual, refine_calls, chain_calls,
                   rw, pcc, morph_results, written, plots, bvars>>

\* lines 357-360
SM_Resolution ==
    /\ pc = "resolution"
    /\ IF ~IsNone(opts.qdamp)
       THEN /\ chain' = Append(chain, "MorphResolutionDamping")
            /\ refpars' = Append(refpars, "qdamp")
            /\ config' = DictSet(config, "qdamp", opts.qdamp)
       ELSE UNCHANGED <<chain, config, refpars>>
    /\ pc' = "exclude"
    /\ UNCHANGED <<opts, pargs, residual, refine_calls, chain_calls,
                   rw, pcc, morph_results, written, plots, error, bvars>>

\* the exclusion step leaving refpars as built
RemoveExcluded_kept(rp, exclude) == rp

\* lines 363-365: refpars = list(set(refpars) - set(opts.exclude))
RemoveExcluded(rp, exclude) == SetToList(Range(rp) \ exclude)

SM_Exclude ==
    /\ pc = "exclude"
    /\ refpars' = IF ~IsNone(opts.exclude) THEN RemoveExcluded(refpars, Val(opts.exclude))
                  ELSE refpars
    /\ pc' = "refiner"
    /\ UNCHANGED <<opts, pargs, config, chain, residual, refine_calls, chain_calls,
                   rw, pcc, morph_results, written, plots, error, bvars>>

\* lines 368-372: the Refiner and its residual
SelectResidual(o) ==
    IF o.addpearson THEN "_add_pearson"
    ELSE IF o.pearson THEN "_pearson"
    ELSE "residual"

\* the branch choice without the slope-only pass
RefineBranch_noslope(o, rp) ==
    IF o.refine /\ rp # << >>
    THEN (IF "smear" \in Range(rp) THEN "first_pass" ELSE "joint_pass")
    ELSE "execute"

\* line 373, 376, 384: which branch of "Refine or execute the morph" runs
RefineBranch(o, rp) ==
    IF o.refine /\ rp # << >>
    THEN (IF "smear" \in Range(rp) THEN "first_pass" ELSE "joint_pass")
    ELSE IF "smear" \in Range(rp) /\ IsNone(o.baselineslope) THEN "slope_pass"
    ELSE "execute"

SM_Refiner ==
    /\ pc = "refiner"
    /\ residual' = SelectResidual(opts)
    /\ pc' = RefineBranch(opts, refpars)
    /\ UNCHANGED <<opts, pargs, config, chain, refpars, refine_calls, chain_calls,
                   rw, pcc, morph_results, written, plots, error, bvars>>

\* a refine call whose ValueError is swallowed: control goes on
RefineCall_swallowed(names, seeds, after) ==
    \E ok \in BOOLEAN :
        /\ refine_calls' = Append(refine_calls,
               [pars |-> names, seeds |-> seeds, residual |-> residual,
                slot0 |-> chain[1], ok |-> ok])
        /\ config' = IF ok THEN RefinerRefine(config, names, seeds) ELSE config
        /\ pc' = after
        /\ UNCHANGED error

\* one refiner.refine(*names, **seeds) call: it either raises ValueError, which
\* the handlers of lines 382-383 and 387-388 turn into an error exit, or writes
\* the optimized values back and control goes on at position after
RefineCall(names, seeds, after) ==
    \E ok \in BOOLEAN :
        /\ refine_calls' = Append(refine_calls,
               [pars |-> names, seeds |-> seeds, residual |-> residual,
                slot0 |-> chain[1], ok |-> ok])
        /\ IF ok
           THEN /\ config' = RefinerRefine(config, names, seeds)
                /\ pc' = after
                /\ UNCHANGED error
           ELSE Exit("refinement failed") /\ UNCHANGED config

\* the first pass always naming scale
FirstPassPars_always(rp) == {"smear", "scale"}

\* lines 376-380: smear, and scale if it is refinable, first
FirstPassPars(rp) == {"smear"} \cup (IF "scale" \in Range(rp) THEN {"scale"} ELSE {})

SM_FirstPass ==
    /\ pc = "first_pass"
    /\ RefineCall(FirstPassPars(refpars), << >>, "joint_pass")
    /\ UNCHANGED <<opts, pargs, chain, refpars, residual, chain_calls,
                   rw, pcc, morph_results, written, plots, bvars>>

\* line 381
SM_JointPass ==
    /\ pc = "joint_pass"
    /\ RefineCall(Range(refpars), << >>, "metrics")
    /\ UNCHANGED <<opts, pargs, chain, refpars, residual, chain_calls,
                   rw, pcc, morph_results, written, plots, bvars>>

\* lines 384-388
SM_SlopePass ==
    /\ pc = "slope_pass"
    /\ RefineCall({"baselineslope"}, [k \in {"baselineslope"} |-> Some(-5)], "metrics")
    /\ UNCHANGED <<opts, pargs, chain, refpars, residual, chain_calls,
                   rw, pcc, morph_results, written, plots, bvars>>

\* line 390
SM_Execute ==
    /\ pc = "execute"
    /\ chain_calls' = Append(chain_calls, chain[1])
    /\ pc' = "metrics"
    /\ UNCHANGED <<opts, pargs, config, chain, refpars, residual, refine_calls,
                   rw, pcc, morph_results, written, plots, error, bvars>>

\* lines 393-394
SM_Metrics ==
    /\ pc = "metrics"
    /\ rw' = getRw(chain, pargs[2])
    /\ pcc' = get_pearson(chain, pargs[2])
    /\ pc' = "swap"
    /\ UNCHANGED <<opts, pargs, config, chain, refpars, residual, refine_calls,
                   chain_calls, morph_results, written, plots, error, bvars>>

\* the identity morph put in front of the chain instead of into slot 0
SwappedChain_prepended(ch) == <<"Morph">> \o ch

\* line 396: chain[0] = morphs.Morph()
SwappedChain(ch) == [ch EXCEPT ![1] = "Morph"]

\* lines 396-397: slot 0 becomes the identity morph and the chain runs again
SM_Swap ==
    /\ pc = "swap"
    /\ chain' = SwappedChain(chain)
    /\ chain_calls' = Append(chain_calls, chain'[1])
    /\ pc' = "results"
    /\ UNCHANGED <<opts, pargs, config, refpars, residual, refine_calls,
                   rw, pcc, morph_results, written, plots, error, bvars>>

\* lines 405-409: morph_results = dict(config.items()) plus Rw and Pearson
SM_Results ==
    /\ pc = "results"
    /\ morph_results' = Some(DictSet(DictSet(config, "Rw", rw), "Pearson", pcc))
    /\ pc' = "save"
    /\ UNCHANGED <<opts, pargs, config, chain, refpars, residual, refine_calls,
                   chain_calls, rw, pcc, written, plots, error, bvars>>

\* lines 418-451: the morph of the last chain execution is written to saveloc;
\* FileNotFoundError (no such directory) ends the run
SM_Save ==
    /\ pc = "save"
    /\ IF IsNone(opts.saveloc)
       THEN pc' = "plot" /\ UNCHANGED <<written, error>>
       ELSE IF DirExists(Parent(Val(opts.saveloc)))
       THEN /\ written' = Append(written, [path |-> Val(opts.saveloc),
                                           target |-> pargs[2],
                                           slot0 |-> chain_calls[Len(chain_calls)],
                                           run |-> Len(chain_calls)])
            /\ pc' = "plot"
            /\ UNCHANGED error
       ELSE Exit("unable to save") /\ UNCHANGED written
    /\ UNCHANGED <<opts, pargs, config, chain, refpars, residual, refine_calls,
                   chain_calls, rw, pcc, morph_results, plots, bvars>>

\* lines 453-471
SM_Plot ==
    /\ pc = "plot"
    /\ plots' = IF opts.plot
                THEN Append(plots, [kind |-> "comparePDFs", target |-> pargs[2],
                                    slot0 |-> chain_calls[Len(chain_calls)],
                                    run |-> Len(chain_calls), rw |-> rw])
                ELSE plots
    /\ pc' = "return"
    /\ UNCHANGED <<opts, pargs, config, chain, refpars, residual, refine_calls,
                   chain_calls, rw, pcc, morph_results, written, error, bvars>>

\* line 473
SM_Return ==
    /\ pc = "return"
    /\ pc' = "returned"
    /\ UNCHANGED <<opts, pargs, config, chain, refpars, residual, refine_calls,
                   chain_calls, rw, pcc, morph_results, written, plots, error, bvars>>

single_morph ==
    \/ SM_Start \/ SM_Range \/ SM_Chain \/ SM_Scale \/ SM_Stretch \/ SM_Smear
    \/ SM_Size \/ SM_ISize \/ SM_Resolution \/ SM_Exclude \/ SM_Refiner
    \/ SM_FirstPass \/ SM_JointPass \/ SM_SlopePass \/ SM_Execute
    \/ SM_Metrics \/ SM_Swap \/ SM_Results \/ SM_Save \/ SM_Plot \/ SM_Return

----------------------------------------------------------------------------
(* Input catalogue of a batch: headers, serial file, names file *)

\* field names are sequences of characters, so that formatting is computed
Temp == <<"T", "e", "m", "p">>
Pres == <<"P", "r", "e", "s">>

\* the header of each target: field -> value
Header == [f \in TargetFiles |->
              CASE f = <<"a", "cgr">> -> [k \in {Temp, Pres} |-> IF k = Temp THEN 300 ELSE 1]
                [] f = <<"a", "gr">> -> [k \in {Temp, Pres} |-> IF k = Temp THEN 100 ELSE 1]
                [] OTHER -> [k \in {Temp} |-> 200]]

\* the serial file: target name -> field -> value
Serial == [f \in TargetFiles |->
              CASE f = <<"a", "cgr">> -> [k \in {Temp} |-> 10]
                [] f = <<"a", "gr">> -> [k \in {Temp} |-> 30]
                [] OTHER -> [k \in {Temp, Pres} |-> IF k = Temp THEN 20 ELSE 5]]

\* the names file: target name -> "save_morph_as" entry
NamesFile == [f \in {<<"a", "cgr">>, <<"a", "gr">>} |->
                 IF f = <<"a", "cgr">> THEN <<"one", "cgr">> ELSE <<"two", "cgr">>]

\* listings of the target directory: no file twice, at most MaxTargets entries
RECURSIVE Listings(_)
Listings(n) ==
    IF n = 0 THEN {<< >>}
    ELSE LET shorter == Listings(n - 1)
         IN shorter \cup {Append(l, f) : l \in {x \in shorter : Len(x) = n - 1},
                                         f \in TargetFiles \cup {MorphFile}}

Directories == {l \in Listings(MaxTargets) : \A i, j \in 1..Len(l) : i # j => l[i] # l[j]}

BatchOpts ==
    { [scale |-> sc, stretch |-> st, smear |-> sm, baselineslope |-> None,
       radius |-> None, pradius |-> None, iradius |-> None, ipradius |-> None,
       qdamp |-> None, exclude |-> None, refine |-> rf,
       rmin |-> None, rmax |-> None, pearson |-> FALSE, addpearson |-> FALSE,
       saveloc |-> sv, plot |-> TRUE, multiple |-> TRUE, field |-> fd,
       reverse |-> rv, serfile |-> sf, snfile |-> sn, verbose |-> FALSE] :
      sc \in {None, Some(20)}, st \in {None, Some(1)}, sm \in {None, Some(2)},
      rf \in BOOLEAN, sv \in {None, Some(<<"sloc">>)},
      fd \in {None, Some(<< <<"t", "e", "m", "p">> >>), Some(<< <<"P", "R", "E", "S">> >>)},
      rv \in BOOLEAN, sf \in {None, Some("serial")}, sn \in {None, Some("names")} }

----------------------------------------------------------------------------
(* Helpers of multiple_morphs *)

Upper(c) == CASE c = "t" -> "T" [] c = "e" -> "E" [] c = "m" -> "M" [] c = "p" -> "P"
              [] c = "r" -> "R" [] c = "s" -> "S" [] OTHER -> c
Lower(c) == CASE c = "T" -> "t" [] c = "E" -> "e" [] c = "M" -> "m" [] c = "P" -> "p"
              [] c = "R" -> "r" [] c = "S" -> "s" [] OTHER -> c

\* lines 499-502: every word capitalized, the words joined without spaces
RECURSIVE FormatField(_)
FormatField(words) ==
    IF words = << >> THEN << >>
    ELSE LET word == Head(words)
         IN <<Upper(word[1])>> \o [i \in 1..(Len(word) - 1) |-> Lower(word[i + 1])]
            \o FormatField(Tail(words))

\* order of two paths of one directory: by name, then by suffix
AlphaKey(f) ==
    (CASE f[1] = "a" -> 10 [] f[1] = "b" -> 20 [] OTHER -> 30)
    + (CASE f[2] = "cgr" -> 1 [] OTHER -> 2)

\* list.sort(key, reverse): stable, equal keys keep their order
Before(kx, ky, reverse) == IF reverse THEN kx > ky ELSE kx < ky

RECURSIVE InsertSorted(_, _, _, _)
InsertSorted(sorted, x, key, reverse) ==
    IF sorted = << >> THEN <<x>>
    ELSE IF Before(key[x], key[Head(sorted)], reverse) THEN <<x>> \o sorted
    ELSE <<Head(sorted)>> \o InsertSorted(Tail(sorted), x, key, reverse)

RECURSIVE SortList(_, _, _)
SortList(s, key, reverse) ==
    IF s = << >> THEN << >>
    ELSE InsertSorted(SortList(SubSeq(s, 1, Len(s) - 1), key, reverse),
                      s[Len(s)], key, reverse)

\* where tools.field_sort looks a field up: the header, or the serial file
Metadata(serfile) == IF IsNone(serfile) THEN Header ELSE Serial

\* tools.field_sort(targets, field, reverse, serfile, get_field_values=True):
\* KeyError when the field is absent for a target, otherwise the targets
\* sorted by the field and the field values in the same order
field_sort(targets, fld, reverse, serfile) ==
    LET meta == Metadata(serfile)
        found == \A i \in 1..Len(targets) : fld \in DOMAIN meta[targets[i]]
        key == [f \in Range(targets) |-> meta[f][fld]]
        sorted == SortList(targets, key, reverse)
    IN IF found
       THEN [ok |-> TRUE, target_list |-> sorted,
             field_list |-> [i \in 1..Len(sorted) |-> key[sorted[i]]]]
       ELSE [ok |-> FALSE, target_list |-> targets, field_list |-> << >>]

\* tools.get_values_from_dictionary_collection(results, key): the value under
\* key of every result that has the key
RECURSIVE get_values_from_dictionary_collection(_, _)
get_values_from_dictionary_collection(res, key) ==
    IF res = << >> THEN << >>
    ELSE (IF key \in DOMAIN Head(res).value THEN <<Head(res).value[key]>> ELSE << >>)
         \o get_values_from_dictionary_collection(Tail(res), key)

\* dict.update({key: value}) on an insertion-ordered dictionary
DictUpdate(d, key, value) ==
    IF \E i \in 1..Len(d) : d[i].key = key
    THEN [i \in 1..Len(d) |-> IF d[i].key = key THEN [key |-> key, value |-> value] ELSE d[i]]
    ELSE Append(d, [key |-> key, value |-> value])

\* line 544: the default name of a saved morph
DefaultSaveName(target) == <<"Morph_with_Target_" \o target[1], "cgr">>

\* lines 537-544: the names of the saved morphs
SaveNames(o, targets) ==
    IF ~IsNone(o.snfile) THEN NamesFile
    ELSE [f \in Range(targets) |-> DefaultSaveName(f)]

\* lines 574-575: the keys multiple_morphs asks the results for
PearsonKey == "pearson"
RwKey == "rw"

----------------------------------------------------------------------------
(* multiple_morphs *)

\* lines 484-503: the target list and the formatted field
MM_Start ==
    /\ bpc = "start" /\ pc = "idle"
    /\ target_list' = SelectList(directory, Range(directory) \ {MorphFile})
    /\ field' = IF ~IsNone(opts.field) THEN Some(FormatField(Val(opts.field))) ELSE None
    /\ field_list' = None
    /\ bpc' = "sort"
    /\ UNCHANGED <<opts, svars, written, plots, error, directory, dirs, save_names,
                   results, next_target, plot_opt, save_opt, file_names, scales,
                   stretches, smears, pearsons, rws, labels, table, reported>>

\* KeyError ignored: the batch goes on with the list as it is
KeyErrorExit_ignored ==
    /\ bpc' = "save"
    /\ UNCHANGED <<target_list, field_list, pc, error>>

\* lines 510-514: KeyError from field_sort ends the batch
KeyErrorExit ==
    /\ Exit(IF ~IsNone(opts.serfile)
            THEN "The requested field was not found in the metadata file."
            ELSE "The requested field is missing from a PDF file header.")
    /\ UNCHANGED <<target_list, field_list, bpc>>

\* lines 506-517: sort by the field, or alphabetically
MM_Sort ==
    /\ bpc = "sort" /\ pc = "idle"
    /\ IF ~IsNone(field)
       THEN LET r == field_sort(target_list, Val(field), opts.reverse, opts.serfile)
            IN IF r.ok
               THEN /\ target_list' = r.target_list
                    /\ field_list' = Some(r.field_list)
                    /\ bpc' = "save"
                    /\ UNCHANGED <<pc, error>>
               ELSE KeyErrorExit
       ELSE /\ target_list' = SortList(target_list,
                                       [f \in Range(target_list) |-> AlphaKey(f)],
                                       opts.reverse)
            /\ bpc' = "save"
            /\ UNCHANGED <<field_list, pc, error>>
    /\ UNCHANGED <<opts, pargs, config, chain, refpars, residual, refine_calls,
                   chain_calls, rw, pcc, morph_results, written, plots, directory,
                   field, dirs, save_names, results, next_target, plot_opt, save_opt,
                   file_names, scales, stretches, smears, pearsons, rws, labels,
                   table, reported>>

\* lines 520-550: single-morph plotting off, the save directories and names
MM_Save ==
    /\ bpc = "save" /\ pc = "idle"
    /\ plot_opt' = opts.plot
    /\ opts' = [opts EXCEPT !.plot = FALSE]
    /\ save_opt' = opts.saveloc
    /\ IF ~IsNone(opts.saveloc)
       THEN /\ dirs' = dirs \cup {Val(opts.saveloc), Val(opts.saveloc) \o <<"Morphs">>}
            /\ save_names' = SaveNames(opts, target_list)
       ELSE UNCHANGED <<dirs, save_names>>
    /\ results' = << >>
    /\ next_target' = 1
    /\ bpc' = "loop"
    /\ UNCHANGED <<svars, written, plots, error, directory, target_list, field,
                   field_list, file_names, scales, stretches, smears, pearsons, rws,
                   labels, table, reported>>

\* lines 554-560: the next target; "target_file.is_file" is the bound method,
\* which is true of every entry
MM_Call ==
    /\ bpc = "loop" /\ pc = "idle"
    /\ next_target <= Len(target_list)
    /\ LET target_file == target_list[next_target]
       IN IF ~IsNone(save_opt) /\ target_file \notin DOMAIN save_names
          THEN /\ Exit("no save name for the target")
               /\ UNCHANGED <<opts, pargs, config, chain, refpars, residual,
                              refine_calls, chain_calls, rw, pcc, morph_results>>
          ELSE /\ opts' = IF ~IsNone(save_opt)
                          THEN [opts EXCEPT !.saveloc =
                                   Some(Val(save_opt) \o <<"Morphs", save_names[target_file]>>)]
                          ELSE opts
               /\ pargs' = <<MorphFile, target_file>>
               /\ EnterSingleMorph
               /\ UNCHANGED error
    /\ UNCHANGED <<written, plots, bvars>>

\* lines 561-564: the result of the call is stored under the target's name
MM_Collect ==
    /\ bpc = "loop" /\ pc = "returned"
    /\ results' = DictUpdate(results, pargs[2], Val(morph_results))
    /\ next_target' = next_target + 1
    /\ pc' = "idle"
    /\ UNCHANGED <<opts, pargs, config, chain, refpars, residual, refine_calls,
                   chain_calls, rw, pcc, morph_results, written, plots, error,
                   bpc, directory, target_list, field, field_list, dirs, save_names,
                   plot_opt, save_opt, file_names, scales, stretches, smears,
                   pearsons, rws, labels, table, reported>>

\* lines 567-575: the columns of the table
MM_Parse ==
    /\ bpc = "loop" /\ pc = "idle"
    /\ next_target > Len(target_list)
    /\ file_names' = [i \in 1..Len(results) |-> results[i].key]
    /\ scales' = get_values_from_dictionary_collection(results, "scale")
    /\ smears' = get_values_from_dictionary_collection(results, "smear")
    /\ stretches' = get_values_from_dictionary_collection(results, "stretch")
    /\ pearsons' = get_values_from_dictionary_collection(results, PearsonKey)
    /\ rws' = get_values_from_dictionary_collection(results, RwKey)
    /\ bpc' = "table"
    /\ UNCHANGED <<opts, svars, written, plots, error, directory, target_list,
                   field, field_list, dirs, save_names, results, next_target,
                   plot_opt, save_opt, labels, table, reported>>

\* lines 607-615: one row of the table; a column is printed when it has a
\* value at idx, Pearson and Rw are always indexed
TableRow(idx) ==
    [target |-> file_names[idx],
     field |-> IF ~IsNone(field) THEN Some(Val(field_list)[idx]) ELSE None,
     scale |-> IF Len(scales) >= idx THEN Some(Val(scales[idx])) ELSE None,
     stretch |-> IF Len(stretches) >= idx THEN Some(Val(stretches[idx])) ELSE None,
     smear |-> IF Len(smears) >= idx THEN Some(Val(smears[idx])) ELSE None,
     pearson |-> Val(pearsons[idx]),
     rw |-> Val(rws[idx])]

\* lines 597-615: labels and table; pearsons[idx] and rws[idx] raise IndexError
\* when the list is shorter than the results
MM_Table ==
    /\ bpc = "table" /\ pc = "idle"
    /\ labels' = <<"Target">> \o (IF ~IsNone(field) THEN <<"Field">> ELSE << >>)
                 \o (IF Len(scales) > 0 THEN <<"Scale">> ELSE << >>)
                 \o (IF Len(stretches) > 0 THEN <<"Stretch">> ELSE << >>)
                 \o (IF Len(smears) > 0 THEN <<"Smear">> ELSE << >>)
                 \o <<"Pearson", "Rw">>
    /\ IF Len(results) > 0 /\ (Len(pearsons) < Len(results) \/ Len(rws) < Len(results))
       THEN Exit("IndexError: list index out of range") /\ UNCHANGED <<table, bpc>>
       ELSE /\ table' = Some([idx \in 1..Len(results) |-> TableRow(idx)])
            /\ bpc' = "report"
            /\ UNCHANGED <<pc, error>>
    /\ UNCHANGED <<opts, pargs, config, chain, refpars, residual, refine_calls,
                   chain_calls, rw, pcc, morph_results, written, plots, directory,
                   target_list, field, field_list, dirs, save_names, results,
                   next_target, plot_opt, save_opt, file_names, scales, stretches,
                   smears, pearsons, rws, reported>>

\* lines 618-636: print the table, save it, plot the Rw values
MM_Report ==
    /\ bpc = "report" /\ pc = "idle"
    /\ reported' = <<"stdout">>
                   \o (IF ~IsNone(save_opt) THEN <<"Morph_Reference_Table.csv">> ELSE << >>)
                   \o (IF plot_opt THEN <<"plot_rws">> ELSE << >>)
    /\ bpc' = "done"
    /\ UNCHANGED <<opts, svars, written, plots, error, directory, target_list,
                   field, field_list, dirs, save_names, results, next_target,
                   plot_opt, save_opt, file_names, scales, stretches, smears,
                   pearsons, rws, labels, table>>

multiple_morphs ==
    \/ MM_Start \/ MM_Sort \/ MM_Save \/ MM_Call \/ MM_Collect \/ MM_Parse
    \/ MM_Table \/ MM_Report

----------------------------------------------------------------------------
(* main() without --multiple: one single_morph call *)

Init ==
    /\ opts \in BuildOpts \cup ReportOpts
    /\ pargs \in {<<MorphFile, <<"a", "gr">> >>, <<MorphFile, Unreadable>>}
    /\ pc = "start"
    /\ config = << >>
    /\ chain = << >>
    /\ refpars = << >>
    /\ residual = "residual"
    /\ refine_calls = << >>
    /\ chain_calls = << >>
    /\ rw = None
    /\ pcc = None
    /\ morph_results = None
    /\ written = << >>
    /\ plots = << >>
    /\ error = None
    /\ bpc = "none"
    /\ directory = << >>
    /\ target_list = << >>
    /\ field = None
    /\ field_list = None
    /\ dirs = {}
    /\ save_names = << >>
    /\ results = << >>
    /\ next_target = 0
    /\ plot_opt = FALSE
    /\ save_opt = None
    /\ file_names = << >>
    /\ scales = << >>
    /\ stretches = << >>
    /\ smears = << >>
    /\ pearsons = << >>
    /\ rws = << >>
    /\ labels = << >>
    /\ table = None
    /\ reported = << >>

Next == single_morph

Spec == Init /\ [][Next]_vars

(* main() with --multiple: multiple_morphs over a directory *)

InitBatch ==
    /\ opts \in BatchOpts
    /\ directory \in Directories
    /\ pargs = <<MorphFile, "directory">>
    /\ pc = "idle"
    /\ config = << >>
    /\ chain = << >>
    /\ refpars = << >>
    /\ residual = "residual"
    /\ refine_calls = << >>
    /\ chain_calls = << >>
    /\ rw = None
    /\ pcc = None
    /\ morph_results = None
    /\ written = << >>
    /\ plots = << >>
    /\ error = None
    /\ bpc = "start"
    /\ target_list = << >>
    /\ field = None
    /\ field_list = None
    /\ dirs = {}
    /\ save_names = << >>
    /\ results = << >>
    /\ next_target = 0
    /\ plot_opt = FALSE
    /\ save_opt = None
    /\ file_names = << >>
    /\ scales = << >>
    /\ stretches = << >>
    /\ smears = << >>
    /\ pearsons = << >>
    /\ rws = << >>
    /\ labels = << >>
    /\ table = None
    /\ reported = << >>

NextBatch == single_morph \/ multiple_morphs

SpecBatch == InitBatch /\ [][NextBatch]_vars

----------------------------------------------------------------------------
(* Properties of single_morph *)

Count(seq, x) == Cardinality({i \in DOMAIN seq : seq[i] = x})

\* positions at which the exclusion step has run
AfterExclude ==
    \/ pc \in {"refiner", "first_pass", "joint_pass", "slope_pass", "execute",
               "metrics", "swap", "results", "save", "plot", "return", "returned"}
    \/ pc = "exit" /\ refine_calls # << >>

\* positions at which the refine-or-execute step is over
AfterRefinement ==
    pc \in {"metrics", "swap", "results", "save", "plot", "return", "returned"}

Excluded == IF IsNone(opts.exclude) THEN {} ELSE Val(opts.exclude)

SmearNoSlope == ~IsNone(opts.smear) /\ IsNone(opts.baselineslope)
SmearWithSlope == ~IsNone(opts.smear) /\ ~IsNone(opts.baselineslope)

BadRange ==
    /\ ~IsNone(opts.rmin)
    /\ ~IsNone(opts.rmax)
    /\ ~(Val(opts.rmin) < Val(opts.rmax))

\* C1: with both rmin and rmax given and rmax <= rmin the run never gets past
\* the range check: it ends with "rmin must be less than rmax" with no chain,
\* no refine call and no result; a run that has a chain and both bounds has
\* rmin < rmax.
C1_RangeRejectedBeforeBuild ==
    /\ BadRange =>
          /\ pc \in {"start", "range", "exit"}
          /\ chain = << >> /\ refine_calls = << >> /\ chain_calls = << >>
          /\ morph_results = None /\ written = << >> /\ plots = << >>
          /\ (pc = "exit" /\ Unreadable \notin Range(pargs))
                => error = Some("rmin must be less than rmax")
    /\ (chain # << >> /\ ~IsNone(config["rmin"]) /\ ~IsNone(config["rmax"]))
          => Val(config["rmin"]) < Val(config["rmax"])

C1_Witness ==
    /\ BadRange /\ Val(opts.rmin) = Val(opts.rmax)
    /\ pc = "exit" /\ error = Some("rmin must be less than rmax")

\* C2: smear without a slope puts smear and baselineslope in the built refpars
\* and stores -0.5 as the slope until a refine call runs; smear with a slope s
\* puts smear but not baselineslope in refpars, stores s, no refine call names
\* or seeds baselineslope, and the result still carries s.
C2_SmearSlopeRule ==
    /\ (SmearNoSlope /\ pc \in {"size", "isize", "resolution", "exclude"}) =>
          /\ {"smear", "baselineslope"} \subseteq Range(refpars)
          /\ config["baselineslope"] = Some(-5)
    /\ (SmearNoSlope /\ "baselineslope" \in DOMAIN config /\ refine_calls = << >>) =>
          config["baselineslope"] = Some(-5)
    /\ SmearWithSlope =>
          /\ "baselineslope" \notin Range(refpars)
          /\ pc \in {"size", "isize", "resolution", "exclude"} => "smear" \in Range(refpars)
          /\ "baselineslope" \in DOMAIN config =>
                 config["baselineslope"] = opts.baselineslope
          /\ \A i \in 1..Len(refine_calls) :
                 /\ "baselineslope" \notin refine_calls[i].pars
                 /\ "baselineslope" \notin DOMAIN refine_calls[i].seeds
          /\ ~IsNone(morph_results) =>
                 Val(morph_results)["baselineslope"] = opts.baselineslope

C2_Witness ==
    /\ SmearWithSlope /\ opts.refine
    /\ pc = "returned" /\ Len(refine_calls) = 2
    /\ Val(morph_results)["baselineslope"] = Some(-3)

\* what one pair of radius options must have built
EnvelopeRule(a, b, na, nb, sphere, spheroid) ==
    IF IsNone(a) /\ IsNone(b)
    THEN /\ Count(chain, sphere) = 0 /\ Count(chain, spheroid) = 0
         /\ {na, nb} \cap DOMAIN config = {}
         /\ {na, nb} \cap Range(refpars) = {}
    ELSE IF IsNone(a) \/ IsNone(b)
    THEN /\ Count(chain, sphere) = 1 /\ Count(chain, spheroid) = 0
         /\ na \in DOMAIN config /\ config[na] = (IF IsNone(a) THEN b ELSE a)
         /\ nb \notin DOMAIN config
         /\ na \in Range(refpars) /\ nb \notin Range(refpars)
    ELSE /\ Count(chain, sphere) = 0 /\ Count(chain, spheroid) = 1
         /\ {na, nb} \subseteq DOMAIN config /\ config[na] = a /\ config[nb] = b
         /\ {na, nb} \subseteq Range(refpars)

\* C3: once both envelope steps are done, (radius, pradius) has built nothing
\* when neither is given, one sphere stage with Config radius = the given value
\* and only "radius" in refpars when exactly one is given, whichever it is, and
\* one spheroid stage with both names when both are given; the same holds for
\* (iradius, ipradius) with the inverse stages, in the same chain.
C3_EnvelopeRule ==
    pc \in {"resolution", "exclude"} =>
        /\ EnvelopeRule(opts.radius, opts.pradius, "radius", "pradius",
                        "MorphSphere", "MorphSpheroid")
        /\ EnvelopeRule(opts.iradius, opts.ipradius, "iradius", "ipradius",
                        "MorphISphere", "MorphISpheroid")

C3_Witness ==
    /\ pc = "exclude"
    /\ IsNone(opts.radius) /\ opts.pradius = Some(30)
    /\ opts.iradius = Some(50) /\ opts.ipradius = Some(30)
    /\ Count(chain, "MorphSphere") = 1 /\ Count(chain, "MorphISpheroid") = 1
    /\ config["radius"] = Some(30)

\* the names and stages the build rules add, whatever is excluded
GivenCount(a, b) == (IF IsNone(a) THEN 0 ELSE 1) + (IF IsNone(b) THEN 0 ELSE 1)

ExpectedNames(o) ==
    (IF ~IsNone(o.scale) THEN {"scale"} ELSE {})
    \cup (IF ~IsNone(o.stretch) THEN {"stretch"} ELSE {})
    \cup (IF ~IsNone(o.smear) THEN {"smear"} ELSE {})
    \cup (IF ~IsNone(o.smear) /\ IsNone(o.baselineslope) THEN {"baselineslope"} ELSE {})
    \cup (IF GivenCount(o.radius, o.pradius) >= 1 THEN {"radius"} ELSE {})
    \cup (IF GivenCount(o.radius, o.pradius) = 2 THEN {"pradius"} ELSE {})
    \cup (IF GivenCount(o.iradius, o.ipradius) >= 1 THEN {"iradius"} ELSE {})
    \cup (IF GivenCount(o.iradius, o.ipradius) = 2 THEN {"ipradius"} ELSE {})
    \cup (IF ~IsNone(o.qdamp) THEN {"qdamp"} ELSE {})

ExpectedStages(o) ==
    (IF ~IsNone(o.scale) THEN <<"MorphScale">> ELSE << >>)
    \o (IF ~IsNone(o.stretch) THEN <<"MorphStretch">> ELSE << >>)
    \o (IF ~IsNone(o.smear)
        THEN <<"TransformXtalPDFtoRDF", "MorphSmear", "TransformXtalRDFtoPDF">>
        ELSE << >>)
    \o (CASE GivenCount(o.radius, o.pradius) = 1 -> <<"MorphSphere">>
          [] GivenCount(o.radius, o.pradius) = 2 -> <<"MorphSpheroid">>
          [] OTHER -> << >>)
    \o (CASE GivenCount(o.iradius, o.ipradius) = 1 -> <<"MorphISphere">>
          [] GivenCount(o.iradius, o.ipradius) = 2 -> <<"MorphISpheroid">>
          [] OTHER -> << >>)
    \o (IF ~IsNone(o.qdamp) THEN <<"MorphResolutionDamping">> ELSE << >>)

\* C4: after the exclusion step refpars holds no excluded name and every other
\* name the build rules added, each once; the stages after slot 0 and the
\* Config entries are those of the same options without any exclusion.
C4_ExclusionOnlyReducesRefpars ==
    AfterExclude =>
        /\ Range(refpars) \cap Excluded = {}
        /\ Range(refpars) = ExpectedNames(opts) \ Excluded
        /\ Len(refpars) = Cardinality(Range(refpars))
        /\ Tail(chain) = ExpectedStages(opts)
        /\ ExpectedNames(opts) \subseteq DOMAIN config

C4_Witness ==
    /\ pc = "refiner"
    /\ opts.exclude = Some({"smear", "baselineslope"})
    /\ SmearNoSlope /\ ~IsNone(opts.scale) /\ ~IsNone(opts.qdamp)
    /\ Range(refpars) = {"scale", "qdamp"}
    /\ Count(chain, "MorphSmear") = 1
    /\ config["smear"] = opts.smear

\* C8: a failed refine call is the last call of its pair: the run has exited,
\* and there is no Rw, no result, no saved file and no plot for the pair.
C8_RefineFailureIsFatal ==
    \A i \in 1..Len(refine_calls) :
        ~refine_calls[i].ok =>
            /\ i = Len(refine_calls)
            /\ pc = "exit"
            /\ IsNone(rw) /\ IsNone(pcc) /\ IsNone(morph_results)
            /\ \A k \in 1..Len(written) : written[k].target # pargs[2]
            /\ \A k \in 1..Len(plots) : plots[k].target # pargs[2]

C8_Witness ==
    /\ Len(refine_calls) = 2
    /\ refine_calls[1].ok /\ ~refine_calls[2].ok
    /\ pc = "exit" /\ ~IsNone(opts.saveloc) /\ opts.plot

\* the refine-or-execute step has run without full refinement
NotFullRefinement ==
    /\ AfterRefinement \/ (pc = "exit" /\ refine_calls # << >>)
    /\ ~opts.refine \/ refpars = << >>

SlopeOnlyCall ==
    /\ Len(refine_calls) = 1
    /\ refine_calls[1].pars = {"baselineslope"}
    /\ DOMAIN refine_calls[1].seeds = {"baselineslope"}
    /\ refine_calls[1].seeds["baselineslope"] = Some(-5)

ExecutedOnce ==
    /\ refine_calls = << >>
    /\ chain_calls # << >> /\ chain_calls[1] = "MorphRGrid"
    /\ Len(chain_calls) = (IF pc \in {"metrics", "swap"} THEN 1 ELSE 2)
    /\ pc = "metrics" => IsNone(rw) /\ IsNone(pcc)

ExpectedResidual(o) ==
    CASE o.addpearson -> "_add_pearson"
      [] o.pearson /\ ~o.addpearson -> "_pearson"
      [] OTHER -> "residual"

ExpectedPasses ==
    IF "smear" \in Range(refpars)
    THEN << {"smear"} \cup ({"scale"} \cap Range(refpars)), Range(refpars) >>
    ELSE << Range(refpars) >>

IsPrefix(s, t) == Len(s) <= Len(t) /\ \A i \in 1..Len(s) : s[i] = t[i]

\* C10: in refine mode with refinable parameters the refine calls are, in
\* order, {smear} plus scale when scale is refinable and then the full final
\* refpars when smear is refinable, and the full final refpars alone otherwise
\* (a failed call ends the list); no call carries a seed, and the residual is
\* the one the flags select (combined over Pearson over default), set before
\* the first call and the same in every call.
C10_RefinePasses ==
    (opts.refine /\ refpars # << >> /\ AfterExclude /\ pc # "refiner") =>
        LET made == [i \in 1..Len(refine_calls) |-> refine_calls[i].pars]
        IN /\ IsPrefix(made, ExpectedPasses)
           /\ AfterRefinement => made = ExpectedPasses
           /\ residual = ExpectedResidual(opts)
           /\ \A i \in 1..Len(refine_calls) :
                 /\ refine_calls[i].residual = ExpectedResidual(opts)
                 /\ refine_calls[i].seeds = << >>

C10_Witness ==
    /\ opts.refine /\ opts.pearson /\ opts.addpearson
    /\ pc = "returned" /\ Len(refine_calls) = 2
    /\ refine_calls[1].pars = {"smear", "scale"}
    /\ refine_calls[2].pars = {"smear", "scale", "baselineslope"}
    /\ refine_calls[1].residual = "_add_pearson"

\* the value the build stores in Config for a parameter
LoneValue(a, b) == IF IsNone(a) THEN b ELSE a

BuiltValue(o, p) ==
    CASE p = "scale" -> o.scale
      [] p = "stretch" -> o.stretch
      [] p = "smear" -> o.smear
      [] p = "baselineslope" ->
            (IF IsNone(o.baselineslope) THEN Some(-5) ELSE o.baselineslope)
      [] p = "radius" -> LoneValue(o.radius, o.pradius)
      [] p = "pradius" -> o.pradius
      [] p = "iradius" -> LoneValue(o.iradius, o.ipradius)
      [] p = "ipradius" -> o.ipradius
      [] OTHER -> o.qdamp

\* C11: a parameter named in the exclusion set is never among the parameters
\* of a refine call nor among its seeds, in refine mode and in apply-only mode,
\* and the result carries the value the build stored for it.
C11_ExcludedNeverRefined ==
    \A p \in Excluded :
        /\ \A i \in 1..Len(refine_calls) :
              /\ p \notin refine_calls[i].pars
              /\ p \notin DOMAIN refine_calls[i].seeds
        /\ (~IsNone(morph_results) /\ p \in DOMAIN Val(morph_results)) =>
              Val(morph_results)[p] = BuiltValue(opts, p)

\* positions of single_morph after the swap of slot 0
AfterSwap == {"results", "save", "plot", "return", "returned"}

\* positions of single_morph up to and including the swap step
BeforeSwap == {"start", "range", "chain", "scale", "stretch", "smear", "size",
               "isize", "resolution", "exclude", "refiner", "first_pass",
               "joint_pass", "slope_pass", "execute", "metrics", "swap"}

\* the chain as built: grid restriction in slot 0, then the requested stages
GridChain(o) == <<"MorphRGrid">> \o ExpectedStages(o)

\* C12: slot 0 holds MorphRGrid from construction through every refine call
\* and chain execution up to the reading of Rw and Pearson; it is then replaced
\* by the identity Morph exactly once and the chain is run exactly once more;
\* every saved or plotted curve comes from that last run; no stage is put in
\* front of slot 0 or moved; Rw and Pearson of the result are the values read
\* before the swap.
C12_GridSlotThenIdentity ==
    /\ chain # << >> =>
          /\ chain[1] = (IF Count(chain_calls, "Morph") > 0 THEN "Morph"
                         ELSE "MorphRGrid")
          /\ IsPrefix(Tail(chain), ExpectedStages(opts))
    /\ \A i \in 1..Len(refine_calls) : refine_calls[i].slot0 = "MorphRGrid"
    /\ \A i \in 1..Len(chain_calls) :
          chain_calls[i] = (IF i = Len(chain_calls) /\ pc \notin BeforeSwap
                               /\ ~IsNone(rw)
                            THEN "Morph" ELSE "MorphRGrid")
    /\ pc \in BeforeSwap => Count(chain_calls, "Morph") = 0
    /\ pc \in AfterSwap =>
          /\ Count(chain_calls, "Morph") = 1
          /\ Tail(chain) = ExpectedStages(opts)
    /\ Count(chain_calls, "Morph") > 0 => ~IsNone(rw) /\ ~IsNone(pcc)
    /\ ~IsNone(rw) => rw = getRw(GridChain(opts), pargs[2])
    /\ ~IsNone(pcc) => pcc = get_pearson(GridChain(opts), pargs[2])
    /\ ~IsNone(morph_results) =>
          /\ Val(morph_results)["Rw"] = getRw(GridChain(opts), pargs[2])
          /\ Val(morph_results)["Pearson"] = get_pearson(GridChain(opts), pargs[2])
    /\ \A k \in 1..Len(written) :
          written[k].slot0 = "Morph" /\ written[k].run = Len(chain_calls)
    /\ \A k \in 1..Len(plots) :
          plots[k].slot0 = "Morph" /\ plots[k].run = Len(chain_calls)

\* a refined, saved and plotted morph has returned
C12_Witness ==
    /\ pc = "returned"
    /\ Len(refine_calls) = 2
    /\ Len(written) = 1 /\ Len(plots) = 1
    /\ chain = <<"Morph">> \o ExpectedStages(opts)
    /\ Len(chain) > 1
    /\ ~IsNone(opts.rmin)

----------------------------------------------------------------------------
(* Properties of multiple_morphs *)

\* every target of the list has been morphed and its result collected
AllMorphed == bpc \in {"table", "report", "done"}

\* multiple_morphs has ended, normally or with an error
BatchEnded == bpc = "done" \/ pc = "exit"

\* C5: a batch of N >= 1 successfully morphed targets ends with a table of N
\* rows, row i carrying the Pearson and Rw of the i-th result, and a scale,
\* stretch or smear column exactly when the result has that parameter.
C5_TableOfAllResults ==
    (AllMorphed /\ BatchEnded /\ Len(results) >= 1) =>
        /\ ~IsNone(table)
        /\ Len(Val(table)) = Len(target_list)
        /\ \A i \in 1..Len(results) :
              LET row == Val(table)[i]
                  res == results[i].value
              IN /\ Some(row.pearson) = res["Pearson"]
                 /\ Some(row.rw) = res["Rw"]
                 /\ ~IsNone(row.scale) <=> "scale" \in DOMAIN res
                 /\ ~IsNone(row.stretch) <=> "stretch" \in DOMAIN res
                 /\ ~IsNone(row.smear) <=> "smear" \in DOMAIN res

\* C6: targets are morphed in the order of the sorted list, and row i of the
\* table is the i-th target of the sorted list with that target's field value.
C6_RowsFollowSortedOrder ==
    /\ \A i \in 1..Len(results) : results[i].key = target_list[i]
    /\ (AllMorphed /\ BatchEnded /\ Len(target_list) >= 1) =>
          /\ ~IsNone(table)
          /\ \A i \in 1..Len(target_list) :
                /\ Val(table)[i].target = target_list[i]
                /\ ~IsNone(field) =>
                      Val(table)[i].field =
                          Some(Metadata(opts.serfile)[target_list[i]][Val(field)])

\* the sort field is not in the header (or serial-file entry) of some target
Unresolvable ==
    /\ ~IsNone(field)
    /\ \E i \in 1..Len(target_list) :
          Val(field) \notin DOMAIN Metadata(opts.serfile)[target_list[i]]

\* C7: when the sort field cannot be resolved for some target the batch never
\* gets past the sort: it ends with the sort-key error, no single_morph call
\* was made, no directory was created and there is no result or table.
C7_SortKeyErrorFirst ==
    Unresolvable =>
        /\ bpc = "sort"
        /\ pc \in {"idle", "exit"}
        /\ pc = "exit" =>
              error \in {Some("The requested field was not found in the metadata file."),
                         Some("The requested field is missing from a PDF file header.")}
        /\ dirs = {} /\ results = << >> /\ IsNone(table) /\ written = << >>
        /\ refine_calls = << >> /\ chain = << >> /\ IsNone(morph_results)
        /\ reported = << >>

C7_Witness ==
    /\ Unresolvable /\ pc = "exit"
    /\ ~IsNone(opts.saveloc) /\ Len(target_list) = 2
    /\ error = Some("The requested field is missing from a PDF file header.")

\* the save name a target is due: the entry of the names file when one is
\* given, the default name otherwise
DueSaveName(target) ==
    IF ~IsNone(opts.snfile) THEN NamesFile[target] ELSE DefaultSaveName(target)

\* C13: with saving enabled every target of the batch is morphed with a save
\* destination inside "Morphs" (the name of the names file when one is given,
\* the default name otherwise), no target is left without a destination, and
\* two distinct targets never share a destination, so no saved morph is
\* overwritten.
C13_DistinctSaveDestinations ==
    /\ error # Some("no save name for the target")
    /\ (bpc = "loop" /\ pc \notin {"idle", "exit"} /\ ~IsNone(save_opt)) =>
          opts.saveloc = Some(Val(save_opt) \o <<"Morphs", DueSaveName(pargs[2])>>)
    /\ \A i, j \in 1..Len(written) :
          written[i].target # written[j].target =>
              written[i].path # written[j].path

====
